---- MODULE Spec2Model ----
(***************************************************************************)
(* A model of dot-dotty (src/src/index.mjs): the `get` and `set` traps of  *)
(* the Proxy that DotDotty(target, options) returns, together with the     *)
(* part of the JavaScript object model the two traps run on: property      *)
(* lookup along the prototype chain, the `__proto__` accessor of           *)
(* Object.prototype, array `length`, primitive bases and strict-mode       *)
(* assignment (an .mjs file is a module, and module code is strict).       *)
(*                                                                         *)
(* Strings are sequences of one-character strings, so that split, join,    *)
(* Number(..), String(..) and " ".repeat(..) are computed, not assumed.    *)
(***************************************************************************)
EXTENDS Integers, Sequences, FiniteSets, TLC

VARIABLES
    heap,      \* the object graph: builtins, the target and all it reaches
    options,   \* [isImmutable, isExpandable, throwErrors] of the accessor
    call,      \* the last trap invocation: [op, prop, value]
    outcome,   \* how it ended: [kind, value, name, message, i]
    calls      \* number of trap invocations so far

vars == <<heap, options, call, outcome, calls>>

----------------------------------------------------------------------------
(* Strings                                                                 *)

DigitChars == <<"0", "1", "2", "3", "4", "5", "6", "7", "8", "9">>

IsDigit(c) == \E d \in 1..Len(DigitChars) : DigitChars[d] = c

DigitValue(c) == (CHOOSE d \in 1..Len(DigitChars) : DigitChars[d] = c) - 1

\* The result of Number(s) when s is not a numeric literal.
NaN == -1

\* Number(s) for a string s over letters, digits and "_": the empty string
\* is 0, a string of decimal digits is its value, anything else is NaN.
RECURSIVE StringToNumber(_)
StringToNumber(s) ==
    IF s = <<>> THEN 0
    ELSE IF \E k \in 1..Len(s) : ~IsDigit(s[k]) THEN NaN
    ELSE StringToNumber(SubSeq(s, 1, Len(s) - 1)) * 10 + DigitValue(s[Len(s)])

\* String(n) for a non-negative integer n.
RECURSIVE NumberToString(_)
NumberToString(n) ==
    IF n < 10 THEN <<DigitChars[n + 1]>>
    ELSE NumberToString(n \div 10) \o <<DigitChars[(n % 10) + 1]>>

\* isNaN(part) of a string: the string is first converted with Number.
IsNaN(s) == StringToNumber(s) = NaN

\* s.split(sep) for a one-character separator.
RECURSIVE SplitOn(_, _)
SplitOn(s, sep) ==
    IF \A k \in 1..Len(s) : s[k] # sep THEN <<s>>
    ELSE LET d == CHOOSE k \in 1..Len(s) :
                      s[k] = sep /\ \A j \in 1..(k - 1) : s[j] # sep
         IN  <<SubSeq(s, 1, d - 1)>> \o SplitOn(SubSeq(s, d + 1, Len(s)), sep)

\* prop.split('.')
Split(s) == SplitOn(s, ".")

\* parts.join('.')
RECURSIVE Join(_)
Join(parts) ==
    IF parts = <<>> THEN <<>>
    ELSE IF Len(parts) = 1 THEN parts[1]
    ELSE parts[1] \o <<".">> \o Join(Tail(parts))

\* " ".repeat(n)
Repeat(n) == [k \in 1..n |-> " "]

ProtoKey == <<"_", "_", "p", "r", "o", "t", "o", "_", "_">>
ConstructorKey == <<"c", "o", "n", "s", "t", "r", "u", "c", "t", "o", "r">>
LengthKey == <<"l", "e", "n", "g", "t", "h">>

----------------------------------------------------------------------------
(* Values                                                                  *)

Undefined == [t |-> "undefined", n |-> 0, s |-> <<>>]
Null == [t |-> "null", n |-> 0, s |-> <<>>]
Bool(b) == [t |-> "boolean", n |-> IF b THEN 1 ELSE 0, s |-> <<>>]
Num(n) == [t |-> "number", n |-> n, s |-> <<>>]
Str(s) == [t |-> "string", n |-> 0, s |-> s]
Ref(id) == [t |-> "ref", n |-> id, s |-> <<>>]

\* Builtin objects of the realm, at fixed places of the heap. Only the
\* properties a path over the modelled segments can name are kept.
ObjectProto == 1
FunctionProto == 2
ArrayProto == 3
BooleanProto == 4
NumberProto == 5
StringProto == 6
ObjectFn == 7
FunctionFn == 8
ArrayFn == 9
BooleanFn == 10
NumberFn == 11
StringFn == 12
\* The object DotDotty was given as target.
Target == 13

NoProps == [k \in {} |-> Undefined]

Obj(class, proto, props, ro) ==
    [class |-> class, proto |-> proto, props |-> props, ro |-> ro]

\* A builtin constructor function: its length is 1 and cannot be written.
BuiltinFn == Obj("Function", FunctionProto, LengthKey :> Num(1), {LengthKey})

Realm ==
    <<Obj("Object", 0, ConstructorKey :> Ref(ObjectFn), {}),
      Obj("Function", ObjectProto,
          (ConstructorKey :> Ref(FunctionFn)) @@ (LengthKey :> Num(0)),
          {LengthKey}),
      Obj("Array", ObjectProto,
          (ConstructorKey :> Ref(ArrayFn)) @@ (LengthKey :> Num(0)), {}),
      Obj("Object", ObjectProto, ConstructorKey :> Ref(BooleanFn), {}),
      Obj("Object", ObjectProto, ConstructorKey :> Ref(NumberFn), {}),
      Obj("Object", ObjectProto,
          (ConstructorKey :> Ref(StringFn)) @@ (LengthKey :> Num(0)),
          {LengthKey}),
      BuiltinFn, BuiltinFn, BuiltinFn, BuiltinFn, BuiltinFn, BuiltinFn>>

\* typeof v
TypeOf(h, v) ==
    CASE v.t = "null" -> "object"
      [] v.t = "ref" -> IF h[v.n].class = "Function" THEN "function" ELSE "object"
      [] OTHER -> v.t

\* The object literal {} and the array literal []: a fresh object at the
\* end of the heap.
NewObject(h) == Append(h, Obj("Object", ObjectProto, NoProps, {}))
NewArray(h) == Append(h, Obj("Array", ArrayProto, LengthKey :> Num(0), {}))

\* Whether key is an array index: the canonical decimal form of a number.
IsArrayIndex(key) ==
    key # <<>> /\ ~IsNaN(key) /\ NumberToString(StringToNumber(key)) = key

\* Where a property is found from object id up the prototype chain:
\* "data" on holder, the "accessor" __proto__ of Object.prototype, or "none".
RECURSIVE FindProperty(_, _, _)
FindProperty(h, id, key) ==
    IF id = 0 THEN [kind |-> "none", holder |-> 0]
    ELSE IF key \in DOMAIN h[id].props THEN [kind |-> "data", holder |-> id]
    ELSE IF id = ObjectProto /\ key = ProtoKey
         THEN [kind |-> "accessor", holder |-> id]
    ELSE FindProperty(h, h[id].proto, key)

ProtoValue(p) == IF p = 0 THEN Null ELSE Ref(p)

\* The prototype a primitive's property access starts from.
PrimitiveProto(v) ==
    CASE v.t = "boolean" -> BooleanProto
      [] v.t = "number" -> NumberProto
      [] v.t = "string" -> StringProto

\* base[key] for a base that is neither undefined nor null.
GetValue(h, base, key) ==
    LET start == IF base.t = "ref" THEN base.n ELSE PrimitiveProto(base)
        proto == IF base.t = "ref" THEN h[base.n].proto ELSE PrimitiveProto(base)
        f == FindProperty(h, start, key)
    IN  IF base.t = "string" /\ key = LengthKey THEN Num(Len(base.s))
        ELSE IF base.t = "string" /\ IsArrayIndex(key)
                /\ StringToNumber(key) < Len(base.s)
             THEN Str(<<base.s[StringToNumber(key) + 1]>>)
        ELSE CASE f.kind = "data" -> h[f.holder].props[key]
               [] f.kind = "accessor" -> ProtoValue(proto)
               [] OTHER -> Undefined

\* Reading a property of undefined or null throws a TypeError.
CanRead(base) == base.t \notin {"undefined", "null"}

\* Number(v)
RECURSIVE ToNumber(_, _)
ToNumber(h, v) ==
    CASE v.t = "undefined" -> NaN
      [] v.t = "null" -> 0
      [] v.t \in {"boolean", "number"} -> v.n
      [] v.t = "string" -> StringToNumber(v.s)
      [] OTHER ->
           LET o == h[v.n]
               first == <<"0">>
           IN  IF o.class # "Array" THEN NaN
               ELSE IF o.props[LengthKey].n = 0 THEN 0
               ELSE IF o.props[LengthKey].n > 1 THEN NaN
               ELSE IF first \notin DOMAIN o.props THEN 0
               ELSE IF o.props[first].t \in {"undefined", "null"} THEN 0
               ELSE ToNumber(h, o.props[first])

RECURSIVE InChain(_, _, _)
InChain(h, id, target) ==
    IF id = 0 THEN FALSE
    ELSE IF id = target THEN TRUE
    ELSE InChain(h, h[id].proto, target)

WithProp(props, key, v) ==
    [k \in DOMAIN props \cup {key} |-> IF k = key THEN v ELSE props[k]]

\* Defining own property key of object id, with the array's bookkeeping of
\* its length. Returns the heap and the error thrown ("" for none).
DefineOwn(h, id, key, v) ==
    LET o == h[id]
        len == IF o.class = "Array" THEN o.props[LengthKey].n ELSE 0
        n == ToNumber(h, v)
        k == StringToNumber(key)
    IN  IF o.class = "Array" /\ key = LengthKey
        THEN IF n = NaN
             THEN [heap |-> h, err |-> "RangeError"]
             ELSE [heap |-> [h EXCEPT ![id].props =
                       [p \in {q \in DOMAIN o.props :
                                  ~(IsArrayIndex(q) /\ StringToNumber(q) >= n)}
                          |-> IF p = LengthKey THEN Num(n) ELSE o.props[p]]],
                   err |-> ""]
        ELSE IF o.class = "Array" /\ IsArrayIndex(key) /\ k >= len
        THEN [heap |-> [h EXCEPT ![id].props =
                  WithProp(WithProp(o.props, key, v), LengthKey, Num(k + 1))],
              err |-> ""]
        ELSE [heap |-> [h EXCEPT ![id].props = WithProp(o.props, key, v)],
              err |-> ""]

\* The setter of Object.prototype.__proto__ called on object id.
SetProto(h, id, v) ==
    LET p == IF v.t = "ref" THEN v.n ELSE 0
    IN  IF v.t \notin {"ref", "null"} \/ p = h[id].proto
        THEN [heap |-> h, err |-> ""]
        ELSE IF id = ObjectProto \/ InChain(h, p, id)
        THEN [heap |-> h, err |-> "TypeError"]
        ELSE [heap |-> [h EXCEPT ![id].proto = p], err |-> ""]

\* base[key] = v in strict code, for a base that is neither undefined nor
\* null. Returns the heap and the error thrown ("" for none).
PutValue(h, base, key, v) ==
    LET start == IF base.t = "ref" THEN base.n ELSE PrimitiveProto(base)
        f == FindProperty(h, start, key)
    IN  IF base.t # "ref"
        THEN IF f.kind = "accessor"
             THEN [heap |-> h, err |-> ""]
             ELSE [heap |-> h, err |-> "TypeError"]
        ELSE CASE f.kind = "accessor" -> SetProto(h, base.n, v)
               [] f.kind = "data" /\ key \in h[f.holder].ro ->
                    [heap |-> h, err |-> "TypeError"]
               [] OTHER -> DefineOwn(h, base.n, key, v)

----------------------------------------------------------------------------
(* The traps                                                               *)

\* How a trap invocation ended. `at` is the statement it left by: "done"
\* (return obj, return obj[..] = value), "invalid" (the throw new Error /
\* return undefined of an unresolved segment), "immutable" (the return of
\* line 55) or "engine" (an error the engine threw). `i` is the loop index
\* at that point and `created` counts the containers the call created.
Return(v, i, at, created) ==
    [kind |-> "return", value |-> v, name |-> "", message |-> <<>>,
     i |-> i, at |-> at, created |-> created]

\* A thrown error: name is its class, Error for `throw new Error(..)` and
\* TypeError or RangeError for the ones the engine throws (whose message
\* text is the engine's own and is left empty).
Throw(name, message, i, at, created) ==
    [kind |-> "throw", value |-> Undefined, name |-> name,
     message |-> message, i |-> i, at |-> at, created |-> created]

InvalidTargetText ==
    <<"i", "n", "v", "a", "l", "i", "d", " ", "t", "a", "r", "g", "e", "t",
      " ", "\"">>

\* The caret line: " ".repeat(parts.slice(0, i).join('.').length) and "^".
CaretLineShifted(parts, i) == Repeat(Len(Join(SubSeq(parts, 1, i))) + 1) \o <<"^">>
CaretLine(parts, i) == Repeat(Len(Join(SubSeq(parts, 1, i)))) \o <<"^">>

\* The message of the error thrown for segment i (counted from 0) of parts:
\* `invalid target "${part}"\n${prop}\n^` for the first segment and
\* `invalid target "${part}" in "${prefix}"\n${prop}\n${spaces}^` after it.
InvalidTarget(part, parts, i, prop) ==
    IF i = 0
    THEN InvalidTargetText \o part \o <<"\"", "\n">> \o prop \o <<"\n", "^">>
    ELSE InvalidTargetText \o part \o <<"\"", " ", "i", "n", " ", "\"">>
             \o Join(SubSeq(parts, 1, i)) \o <<"\"", "\n">> \o prop
             \o <<"\n">> \o CaretLine(parts, i)

\* if (throwErrors) throw new Error(..); return undefined
InvalidPath(opts, part, parts, i, prop, created) ==
    IF opts.throwErrors
    THEN Throw("Error", InvalidTarget(part, parts, i, prop), i, "invalid",
               created)
    ELSE Return(Undefined, i, "invalid", created)

\* The loop of the get trap from index i on, obj being the value reached.
RECURSIVE GetLoop(_, _, _, _, _, _)
GetLoop(h, opts, obj, parts, i, prop) ==
    IF i >= Len(parts) THEN Return(obj, i, "done", 0)
    ELSE LET part == parts[i + 1]
         IN  IF ~CanRead(obj) THEN Throw("TypeError", <<>>, i, "engine", 0)
             ELSE LET next == GetValue(h, obj, part)
                  IN  IF next = Undefined
                      THEN InvalidPath(opts, part, parts, i, prop, 0)
                      ELSE GetLoop(h, opts, next, parts, i + 1, prop)

\* get: (obj, prop) => ..
GetTrap(h, opts, prop) == GetLoop(h, opts, Ref(Target), Split(prop), 0, prop)

\* if (!isNaN(part)) part = Number(part): the key and the text of the number.
CoercePart(part) ==
    IF ~IsNaN(part) THEN NumberToString(StringToNumber(part)) ELSE part

\* nextPart !== undefined && isExpandable, at loop index i.
ExpandsAlways(opts, parts, i) == i + 2 <= Len(parts)
Expands(opts, parts, i) == i + 2 <= Len(parts) /\ opts.isExpandable

\* obj[part] === undefined || typeof obj[part] !== 'object'
NeedsContainerOrReshape(h, obj, part, nextPart) ==
    LET cur == GetValue(h, obj, part)
    IN  \/ cur = Undefined
        \/ TypeOf(h, cur) # "object"
        \/ cur.t = "ref" /\ (h[cur.n].class = "Array") # ~IsNaN(nextPart)
NeedsContainer(h, obj, part, nextPart) ==
    LET cur == GetValue(h, obj, part)
    IN  cur = Undefined \/ TypeOf(h, cur) # "object"

\* The fresh container: [] before a numeric segment, else {}.
FreshContainer(h, nextPart) ==
    IF ~IsNaN(nextPart) THEN NewArray(h) ELSE NewObject(h)

\* The last statements of the set trap, obj being the value the loop ended on.
SetTerminal(h, opts, obj, parts, prop, value, created) ==
    LET last == parts[Len(parts)]
        i == Len(parts) - 1
        put == PutValue(h, obj, last, value)
    IN  IF ~CanRead(obj)
        THEN [heap |-> h,
              outcome |-> Throw("TypeError", <<>>, i, "engine", created)]
        ELSE IF GetValue(h, obj, last) = Undefined /\ ~opts.isExpandable
        THEN [heap |-> h,
              outcome |-> InvalidPath(opts, last, parts, i, prop, created)]
        ELSE IF put.err # ""
        THEN [heap |-> put.heap,
              outcome |-> Throw(put.err, <<>>, i, "engine", created)]
        ELSE [heap |-> put.heap, outcome |-> Return(value, i, "done", created)]

\* The loop of the set trap from index i on, obj being the value reached.
\* A fresh container whose assignment throws is dropped with the call.
RECURSIVE SetLoop(_, _, _, _, _, _, _, _)
SetLoop(h, opts, obj, parts, i, prop, value, created) ==
    IF i >= Len(parts) - 1
    THEN SetTerminal(h, opts, obj, parts, prop, value, created)
    ELSE LET part == CoercePart(parts[i + 1])
             nextPart == parts[i + 2]
             fresh == FreshContainer(h, nextPart)
             vivify == Expands(opts, parts, i) /\ CanRead(obj)
                           /\ NeedsContainer(h, obj, part, nextPart)
             put == IF vivify
                    THEN PutValue(fresh, obj, part, Ref(Len(fresh)))
                    ELSE [heap |-> h, err |-> ""]
             made == IF vivify THEN created + 1 ELSE created
         IN  IF ~CanRead(obj)
             THEN [heap |-> h,
                   outcome |-> Throw("TypeError", <<>>, i, "engine", created)]
             ELSE IF put.err # ""
             THEN [heap |-> h,
                   outcome |-> Throw(put.err, <<>>, i, "engine", created)]
             ELSE IF GetValue(put.heap, obj, part) = Undefined
             THEN [heap |-> put.heap,
                   outcome |-> InvalidPath(opts, part, parts, i, prop, made)]
             ELSE SetLoop(put.heap, opts, GetValue(put.heap, obj, part),
                          parts, i + 1, prop, value, made)

\* set: (obj, prop, value) => ..
SetTrapUnguarded(h, opts, prop, value) ==
    SetLoop(h, opts, Ref(Target), Split(prop), 0, prop, value, 0)
SetTrap(h, opts, prop, value) ==
    IF opts.isImmutable
    THEN [heap |-> h, outcome |-> Return(Undefined, 0, "immutable", 0)]
    ELSE SetLoop(h, opts, Ref(Target), Split(prop), 0, prop, value, 0)

----------------------------------------------------------------------------
(* Targets, inputs and the state machine                                   *)

\* How many trap invocations a behaviour makes.
MaxCalls == 2

KeyA == <<"a">>
KeyB == <<"b">>
KeyC == <<"c">>
KeyCA == <<"c", "A">>
KeyD == <<"d">>
KeyX == <<"x">>
KeyY == <<"y">>
Key0 == <<"0">>
Key1 == <<"1">>
Key01 == <<"0", "1">>
Test == Str(<<"t", "e", "s", "t">>)

\* let myData = {a: 1, b: 2}
TargetDoc ==
    <<Obj("Object", ObjectProto, (KeyA :> Num(1)) @@ (KeyB :> Num(2)), {})>>

\* {a: 1, c: {cA: true, b: null}, d: [{a: "test"}, 2]}
TargetNested ==
    <<Obj("Object", ObjectProto,
          (KeyA :> Num(1)) @@ (KeyC :> Ref(Target + 1))
              @@ (KeyD :> Ref(Target + 2)), {}),
      Obj("Object", ObjectProto, (KeyCA :> Bool(TRUE)) @@ (KeyB :> Null), {}),
      Obj("Array", ArrayProto,
          (Key0 :> Ref(Target + 3)) @@ (Key1 :> Num(2))
              @@ (LengthKey :> Num(2)), {}),
      Obj("Object", ObjectProto, KeyA :> Test, {})>>

Targets == {TargetDoc, TargetNested}

\* The paths the traps are called with, as lists of segments.
PathSegments ==
    { <<KeyA>>, <<KeyC, KeyCA>>, <<KeyD, Key0, KeyA>>, <<KeyX, KeyY>>,
      <<KeyA, <<>>, KeyB>>, <<KeyX, Key01, KeyY>>, <<KeyC, KeyB, KeyA>>,
      <<KeyD, Key0>>, <<KeyD, LengthKey>>, <<ConstructorKey>>,
      <<ProtoKey, KeyA>> }

Paths == { Join(segs) : segs \in PathSegments }

\* The values written: a boolean, a string and null.
Values == { Bool(TRUE), Test, Null }

Options ==
    [isImmutable : BOOLEAN, isExpandable : BOOLEAN, throwErrors : BOOLEAN]

NoCall == [op |-> "none", prop |-> <<>>, value |-> Undefined]

\* DotDotty(target, options): nothing has been read or written yet.
Init ==
    /\ heap \in { Realm \o t : t \in Targets }
    /\ options \in Options
    /\ call = NoCall
    /\ outcome = Return(Undefined, 0, "none", 0)
    /\ calls = 0

\* dot[prop]
Get(prop) ==
    /\ calls < MaxCalls
    /\ outcome' = GetTrap(heap, options, prop)
    /\ call' = [op |-> "get", prop |-> prop, value |-> Undefined]
    /\ calls' = calls + 1
    /\ UNCHANGED <<heap, options>>

\* dot[prop] = value
Set(prop, value) ==
    /\ calls < MaxCalls
    /\ LET r == SetTrap(heap, options, prop, value)
       IN  heap' = r.heap /\ outcome' = r.outcome
    /\ call' = [op |-> "set", prop |-> prop, value |-> value]
    /\ calls' = calls + 1
    /\ UNCHANGED options

GetStep == \E prop \in Paths : Get(prop)

SetStep == \E prop \in Paths, value \in Values : Set(prop, value)

Next == GetStep \/ SetStep

Spec == Init /\ [][Next]_vars

\* Calls run to completion one after the other: a pending call is made.
FairSpec == Spec /\ WF_vars(Next)

----------------------------------------------------------------------------
(* Vocabulary of the properties                                            *)

\* The step is one invocation of the set trap.
IsSetStep == calls' = calls + 1 /\ call'.op = "set"

\* The keys the set trap looks up for parts: the intermediate segments
\* coerced, the terminal one as written. The get trap looks up parts itself.
SetKeys(parts) ==
    [k \in 1..Len(parts) |->
        IF k < Len(parts) THEN CoercePart(parts[k]) ELSE parts[k]]

CallKeys == IF call.op = "set" THEN SetKeys(Split(call.prop)) ELSE Split(call.prop)

\* The value reached from the target after looking up keys[1..j] in h
\* (undefined once a lookup is not possible).
RECURSIVE Reach(_, _, _)
Reach(h, keys, j) ==
    IF j = 0 THEN Ref(Target)
    ELSE LET base == Reach(h, keys, j - 1)
         IN  IF CanRead(base) THEN GetValue(h, base, keys[j]) ELSE Undefined

\* A mapping or a sequence.
IsContainer(h, v) == v.t = "ref" /\ h[v.n].class \in {"Object", "Array"}

\* Created by the step: not an object of the heap before it.
IsFresh(v) == v.t = "ref" /\ v.n > Len(heap)

PathOf(segs) == Join(segs)

DefaultOptions ==
    [isImmutable |-> FALSE, isExpandable |-> TRUE, throwErrors |-> TRUE]

Writable == options.isExpandable /\ ~options.isImmutable

----------------------------------------------------------------------------
(* C1 *)

\* The intermediate segments of prop are absent from the target: the first
\* one, as written and as coerced, is found neither in the target nor
\* through its prototype.
IntermediatesAbsent(h, prop) ==
    LET parts == Split(prop)
    IN  Len(parts) > 1 =>
            /\ GetValue(h, Ref(Target), parts[1]) = Undefined
            /\ GetValue(h, Ref(Target), CoercePart(parts[1])) = Undefined

\* C1: round trip. With isExpandable and not isImmutable, after set(p, v)
\* on a target where the intermediate segments of p are absent, get(p)
\* returns v. (The get is the get trap applied to the heap the set leaves.)
C1_RoundTrip ==
    [][(IsSetStep /\ Writable /\ IntermediatesAbsent(heap, call'.prop))
        => LET got == GetTrap(heap', options, call'.prop)
           IN  got.kind = "return" /\ got.value = call'.value]_vars

----------------------------------------------------------------------------
(* C2 *)

\* C2: immutable guard. With isImmutable, every set leaves the heap as it
\* was, returns undefined and throws nothing, whatever the path, the value
\* and the other options.
C2_ImmutableGuard ==
    [][(IsSetStep /\ options.isImmutable)
        => /\ heap' = heap
           /\ outcome'.kind = "return"
           /\ outcome'.value = Undefined]_vars

\* A second call on an immutable accessor was a set on a path of several
\* segments.
C2_Witness ==
    /\ options.isImmutable
    /\ calls = 2
    /\ call.op = "set"
    /\ Len(Split(call.prop)) > 1
    /\ outcome.at = "immutable"

----------------------------------------------------------------------------
(* C3 *)

\* Some segment of prop resolves to undefined in h.
Unresolved(h, prop) ==
    GetTrap(h, DefaultOptions, prop).at = "invalid"

\* No object of the target's tree gained a key and no object was created.
NoKeyAdded ==
    /\ Len(heap') = Len(heap)
    /\ \A id \in Target..Len(heap) :
           DOMAIN heap'[id].props \subseteq DOMAIN heap[id].props

\* With isExpandable false, a set on an unresolved path changes nothing and
\* fails (InvalidPath if throwErrors, else undefined is returned).
NonExpandableFails ==
    [][(IsSetStep /\ ~options.isExpandable /\ ~options.isImmutable
            /\ Unresolved(heap, call'.prop))
        => /\ heap' = heap
           /\ outcome'.at = "invalid"
           /\ outcome'.kind = IF options.throwErrors THEN "throw" ELSE "return"
           /\ outcome'.value = Undefined]_vars

\* C3: non-expandable guard. With isExpandable false (and not isImmutable)
\* a set on a path with a segment that resolves to undefined changes
\* nothing and fails, and no set ever adds a key or a container to the
\* target.
C3_NonExpandableGuard ==
    [][(IsSetStep /\ ~options.isExpandable /\ ~options.isImmutable)
        => /\ Unresolved(heap, call'.prop)
               => /\ heap' = heap
                  /\ outcome'.at = "invalid"
                  /\ outcome'.kind =
                         IF options.throwErrors THEN "throw" ELSE "return"
                  /\ outcome'.value = Undefined
           /\ NoKeyAdded]_vars

----------------------------------------------------------------------------
(* C4 *)

\* {a: 1, b: 2, c: {cA: true}}
TargetDocC ==
    <<Obj("Object", ObjectProto,
          (KeyA :> Num(1)) @@ (KeyB :> Num(2)) @@ (KeyC :> Ref(Target + 1)),
          {}),
      Obj("Object", ObjectProto, KeyCA :> Bool(TRUE), {})>>

\* {a: 1, b: 2, c: {cA: true}, d: [{a: "test"}]}
TargetDocCD ==
    <<Obj("Object", ObjectProto,
          (KeyA :> Num(1)) @@ (KeyB :> Num(2)) @@ (KeyC :> Ref(Target + 1))
              @@ (KeyD :> Ref(Target + 2)), {}),
      Obj("Object", ObjectProto, KeyCA :> Bool(TRUE), {}),
      Obj("Array", ArrayProto,
          (Key0 :> Ref(Target + 3)) @@ (LengthKey :> Num(1)), {}),
      Obj("Object", ObjectProto, KeyA :> Test, {})>>

\* The example of the documentation: from {a: 1, b: 2}, dot["c.cA"] = true
\* and then dot["d.0.a"] = "test" give {a: 1, b: 2, c: {cA: true}} and
\* {a: 1, b: 2, c: {cA: true}, d: [{a: "test"}]}, each returning the value.
DocExample ==
    [][(IsSetStep /\ options = DefaultOptions)
        => /\ (heap = Realm \o TargetDoc /\ call'.prop = PathOf(<<KeyC, KeyCA>>)
                  /\ call'.value = Bool(TRUE))
               => (heap' = Realm \o TargetDocC /\ outcome'.kind = "return"
                      /\ outcome'.value = Bool(TRUE))
           /\ (heap = Realm \o TargetDocC
                  /\ call'.prop = PathOf(<<KeyD, Key0, KeyA>>)
                  /\ call'.value = Test)
               => (heap' = Realm \o TargetDocCD /\ outcome'.kind = "return"
                      /\ outcome'.value = Test)]_vars

\* For intermediate segment j of the call: if what the container reached
\* held there before the step was missing or no container, it holds after
\* the step a container created by the step, a sequence exactly if the
\* next segment is numeric.
VivifiedAt(parts, j) ==
    LET keys == SetKeys(parts)
        hold == Reach(heap', keys, j - 1)
        old == IF hold.t = "ref" /\ hold.n <= Len(heap)
               THEN GetValue(heap, hold, keys[j]) ELSE Undefined
        new == Reach(heap', keys, j)
    IN  (hold.t = "ref" /\ ~IsContainer(heap, old))
            => /\ IsFresh(new)
               /\ (heap'[new.n].class = "Array") = ~IsNaN(parts[j + 1])

\* C4: the vivified container's type follows the next segment. With the
\* default options, a missing or non-container value at an intermediate
\* segment is replaced by a fresh sequence if the next segment is numeric
\* and by a fresh mapping otherwise; and the documentation's example ends
\* as documented.
C4_VivifiedType ==
    [][(IsSetStep /\ options = DefaultOptions)
        => /\ \A j \in 1..(Len(Split(call'.prop)) - 1) :
                  VivifiedAt(Split(call'.prop), j)
           /\ (heap = Realm \o TargetDoc /\ call'.prop = PathOf(<<KeyC, KeyCA>>)
                  /\ call'.value = Bool(TRUE))
               => (heap' = Realm \o TargetDocC /\ outcome'.kind = "return"
                      /\ outcome'.value = Bool(TRUE))
           /\ (heap = Realm \o TargetDocC
                  /\ call'.prop = PathOf(<<KeyD, Key0, KeyA>>)
                  /\ call'.value = Test)
               => (heap' = Realm \o TargetDocCD /\ outcome'.kind = "return"
                      /\ outcome'.value = Test)]_vars

----------------------------------------------------------------------------
(* C5 *)

\* A segment that parses fully as a number: "0" and "12" do, "a" and the
\* empty segment do not.
ParsesAsNumber(seg) == seg # <<>> /\ \A k \in 1..Len(seg) : IsDigit(seg[k])

\* C5: numeric segment detection. In a set that may expand, the container
\* created for an intermediate segment is a sequence exactly if the next
\* segment parses fully as a number, and an intermediate segment is used as
\* a number exactly if it does: so set("a..b", v) makes a mapping at "a"
\* and uses the empty segment as a string key in it.
C5_NumericSegment ==
    [][(IsSetStep /\ Writable /\ outcome'.at = "done")
        => LET parts == Split(call'.prop)
               keys == SetKeys(parts)
           IN  \A j \in 1..(Len(parts) - 1) :
                   LET new == Reach(heap', keys, j)
                       hold == Reach(heap', keys, j - 1)
                   IN  /\ IsFresh(new)
                          => (heap'[new.n].class = "Array")
                                 = ParsesAsNumber(parts[j + 1])
                       /\ (IsFresh(new) /\ ~ParsesAsNumber(parts[j]))
                          => parts[j] \in DOMAIN heap'[hold.n].props]_vars

----------------------------------------------------------------------------
(* C6 *)

\* C6: single error kind. A call returns or throws InvalidPath (the Error
\* of the traps), and throws nothing when throwErrors is false.
C6_SingleErrorKind ==
    outcome.kind = "throw" => (outcome.name = "Error" /\ options.throwErrors)

----------------------------------------------------------------------------
(* C7 *)

\* The lines of a message.
Lines(message) == SplitOn(message, "\n")

\* Index i is the first at which looking up keys from the target yields
\* undefined.
FirstUndefinedAt(h, keys, i) ==
    /\ \A j \in 1..i : Reach(h, keys, j) # Undefined
    /\ CanRead(Reach(h, keys, i))
    /\ Reach(h, keys, i + 1) = Undefined

\* C7: error pointer alignment. The message of an InvalidPath thrown by get
\* or set names the first segment i whose lookup yields undefined, holds the
\* whole path on its second line, and on its third the caret at column 0 if
\* i = 0 and else at the column that is the length of the "."-joined prefix
\* of segments 0..i-1, which the first line quotes.
C7_ErrorPointer ==
    (outcome.kind = "throw" /\ outcome.name = "Error")
        => LET parts == Split(call.prop)
               i == outcome.i
               prefix == Join(SubSeq(parts, 1, i))
               lines == Lines(outcome.message)
               column == IF i = 0 THEN 0 ELSE Len(prefix)
           IN  /\ options.throwErrors
               /\ i \in 0..(Len(parts) - 1)
               /\ FirstUndefinedAt(heap, CallKeys, i)
               /\ Len(lines) = 3
               /\ lines[1] = InvalidTargetText \o CallKeys[i + 1] \o <<"\"">>
                       \o (IF i = 0 THEN <<>>
                           ELSE <<" ", "i", "n", " ", "\"">> \o prefix
                                   \o <<"\"">>)
               /\ lines[2] = call.prop
               /\ Len(lines[3]) = column + 1
               /\ lines[3][column + 1] = "^"
               /\ \A k \in 1..column : lines[3][k] = " "

\* A get failed at its third segment: the prefix holds a dot.
C7_Witness ==
    /\ call.op = "get"
    /\ outcome.kind = "throw"
    /\ outcome.name = "Error"
    /\ outcome.i = 2

----------------------------------------------------------------------------
(* C8 *)

\* A set ended in an InvalidPath failure after it had created a container.
PartialMutation ==
    call.op = "set" /\ outcome.at = "invalid" /\ outcome.created > 0

----------------------------------------------------------------------------
(* C9 *)

\* Entry k of object id is after the step what it was before.
Kept(id, k) ==
    k \in DOMAIN heap'[id].props /\ heap'[id].props[k] = heap[id].props[k]

\* The entries of an object: its own keys, but for a sequence's length.
Entries(h, id) ==
    DOMAIN h[id].props \ (IF h[id].class = "Array" THEN {LengthKey} ELSE {})

\* The step wrote parts' terminal segment "length" on a sequence, which
\* cuts the sequence: entry k of object id is an index.
CutByLength(parts, id, k) ==
    /\ heap[id].class = "Array"
    /\ parts[Len(parts)] = LengthKey
    /\ IsArrayIndex(k)

----------------------------------------------------------------------------
(* C10 *)

\* C10: writes are confined to the target. No builtin object (among them
\* the prototype all mappings share) is ever modified, so a fresh empty
\* mapping shows no property "a".
C10_WritesConfined ==
    /\ \A id \in 1..(Target - 1) : heap[id] = Realm[id]
    /\ GetValue(NewObject(heap), Ref(Len(heap) + 1), KeyA) = Undefined

====
